---- MODULE Spec2Model ----
(***************************************************************************)
(* PeHashNG (src/pehashng.py): sha256 over the structural properties of a  *)
(* Portable Executable.  The model follows the Python 2 source statement   *)
(* by statement.  Python integers are unbounded and the packed fields are  *)
(* 16, 32 and 64 bits wide, so an integer is kept as a little-endian       *)
(* sequence of 16-bit limbs in two's complement with an infinite sign      *)
(* extension, the way Python's bitwise operators see it.                   *)
(***************************************************************************)
EXTENDS Integers, Sequences, FiniteSets, TLC

\* ------------------------------------------------------------------------
\* Python int: [d |-> limbs, least significant first, s |-> the limb that
\* repeats forever above them (0 for n >= 0, Base - 1 for n < 0)].
\* The value is  SUM d[i] * Base^(i-1)  -  (IF s # 0 THEN Base^Len(d) ELSE 0).
\* ------------------------------------------------------------------------
Base == 2^16

Max(a, b) == IF a >= b THEN a ELSE b

RECURSIVE Tuple(_, _)
\* the first n elements of f as a sequence
Tuple(f, n) == IF n = 0 THEN <<>> ELSE Append(Tuple(f, n - 1), f[n])

RECURSIVE Norm(_, _)
\* canonical form: no most significant limb equal to the sign extension
Norm(d, s) ==
    IF Len(d) > 0 /\ d[Len(d)] = s THEN Norm(SubSeq(d, 1, Len(d) - 1), s)
    ELSE [d |-> Tuple(d, Len(d)), s |-> s]

Limb(a, i) == IF i <= Len(a.d) THEN a.d[i] ELSE a.s

Zero == [d |-> <<>>, s |-> 0]
One == [d |-> <<1>>, s |-> 0]

\* ~a
Invert(a) ==
    [d |-> Tuple([i \in 1..Len(a.d) |-> Base - 1 - a.d[i]], Len(a.d)), s |-> Base - 1 - a.s]

RECURSIVE BitAnd(_, _)
\* x & y on two limbs
BitAnd(x, y) ==
    IF x = 0 \/ y = 0 THEN 0
    ELSE (x % 2) * (y % 2) + 2 * BitAnd(x \div 2, y \div 2)

\* a & b
And(a, b) ==
    LET L == Max(Len(a.d), Len(b.d))
    IN Norm([i \in 1..L |-> BitAnd(Limb(a, i), Limb(b, i))], BitAnd(a.s, b.s))

\* a | b
Or(a, b) == Invert(And(Invert(a), Invert(b)))

RECURSIVE Carry(_, _, _)
\* the carry into limb i of a + b
Carry(a, b, i) ==
    IF i = 1 THEN 0
    ELSE (Limb(a, i - 1) + Limb(b, i - 1) + Carry(a, b, i - 1)) \div Base

\* a + b
Add(a, b) ==
    LET L == Max(Len(a.d), Len(b.d)) + 1
    IN Norm([i \in 1..L |-> (Limb(a, i) + Limb(b, i) + Carry(a, b, i)) % Base],
            (a.s + b.s + Carry(a, b, L + 1)) % Base)

\* -a
Neg(a) == Add(Invert(a), One)

\* a - b
Sub(a, b) == Add(a, Neg(b))

\* a < b
Lt(a, b) == Sub(a, b).s # 0

\* a << k: k \div 16 limbs of zeros, then every limb moved up by k % 16 bits
Shl(a, k) ==
    LET q == k \div 16
        m == 2^(k % 16)
        L == Len(a.d) + q + 1
        low(i) == IF i > q + 1 THEN (Limb(a, i - (q + 1)) * m) \div Base ELSE 0
    IN Norm([i \in 1..L |-> IF i <= q THEN 0 ELSE ((Limb(a, i - q) * m) % Base) + low(i)],
            a.s)

\* a >> k (floor): k \div 16 limbs dropped, then every limb moved down by k % 16 bits
Shr(a, k) ==
    LET q == k \div 16
        m == 2^(k % 16)
        L == Max(Len(a.d) - q, 0)
    IN Norm([i \in 1..L |-> (Limb(a, i + q) \div m) + (Limb(a, i + q + 1) % m) * (Base \div m)],
            a.s)

RECURSIVE LimbBits(_)
\* number of bits of one limb
LimbBits(x) == IF x = 0 THEN 0 ELSE 1 + LimbBits(x \div 2)

\* int.bit_length(): bits of the absolute value
bit_length(a) ==
    LET m == IF a.s # 0 THEN Neg(a) ELSE a
    IN IF Len(m.d) = 0 THEN 0 ELSE 16 * (Len(m.d) - 1) + LimbBits(m.d[Len(m.d)])

RECURSIVE Limbs(_)
Limbs(n) == IF n = 0 THEN <<>> ELSE <<n % Base>> \o Limbs(n \div Base)

\* the Python int of a small model integer, and back
Int2Py(n) == IF n >= 0 THEN [d |-> Limbs(n), s |-> 0] ELSE Neg([d |-> Limbs(-n), s |-> 0])

RECURSIVE LimbsVal(_)
LimbsVal(d) == IF Len(d) = 0 THEN 0 ELSE d[1] + Base * LimbsVal(Tail(d))

Py2Int(a) == IF a.s = 0 THEN LimbsVal(a.d) ELSE -LimbsVal(Neg(a).d)

\* ------------------------------------------------------------------------
\* align_down_p2, align_up
\* ------------------------------------------------------------------------
Return(v) == [exc |-> "", val |-> v]
Raise(e, v) == [exc |-> e, val |-> v]

\* mutant: the shift is one too far
align_down_p2_shift(number) ==
    IF number # Zero THEN Shl(One, bit_length(number)) ELSE Zero

align_down_p2(number) ==
    IF number # Zero THEN Shl(One, bit_length(number) - 1) ELSE Zero

\* mutant: the boundary is added, not the boundary less one
align_up_plus(number, boundary_p2) ==
    IF boundary_p2 # align_down_p2(boundary_p2) THEN Raise("AssertionError", Zero)
    ELSE LET b == Sub(boundary_p2, One)
         IN Return(And(Add(number, boundary_p2), Invert(b)))

align_up(number, boundary_p2) ==
    IF boundary_p2 # align_down_p2(boundary_p2) THEN Raise("AssertionError", Zero)
    ELSE LET b == Sub(boundary_p2, One)
         IN Return(And(Add(number, b), Invert(b)))

\* ------------------------------------------------------------------------
\* struct.pack('> H' | '> I' | '> Q' | '> B', v): big-endian, fixed width,
\* struct.error when v does not fit the width
\* ------------------------------------------------------------------------
Byte(v, k) == (Limb(v, (k \div 2) + 1) \div (IF k % 2 = 1 THEN 256 ELSE 1)) % 256

pack(width, v) ==
    IF v.s # 0 \/ ~Lt(v, Shl(One, 8 * width)) THEN Raise("struct.error", <<>>)
    ELSE Return(Tuple([j \in 1..width |-> Byte(v, width - j)], width))

\* pack(fmt, f(...)): an exception of the argument propagates
packr(width, r) == IF r.exc # "" THEN Raise(r.exc, <<>>) ELSE pack(width, r.val)

\* data.append(pack(...)) after the statements that gave st; the first
\* exception ends the function
append(st, r) ==
    IF st.exc # "" THEN st
    ELSE IF r.exc # "" THEN Raise(r.exc, st.val)
    ELSE Return(Append(st.val, r.val))

\* ------------------------------------------------------------------------
\* pehashng: the header fields
\* ------------------------------------------------------------------------
\* mutant: the characteristics are packed where the subsystem belongs
HeaderTwice(e) ==
    LET s1 == append(Return(<<>>), pack(2, e.Characteristics))
        s2 == append(s1, pack(2, e.Characteristics))
        s3 == append(s2, pack(4, align_down_p2(e.SectionAlignment)))
        s4 == append(s3, pack(4, align_down_p2(e.FileAlignment)))
        s5 == append(s4, packr(8, align_up(e.SizeOfStackCommit, Int2Py(4096))))
    IN append(s5, packr(8, align_up(e.SizeOfHeapCommit, Int2Py(4096))))

Header(e) ==
    LET s1 == append(Return(<<>>), pack(2, e.Characteristics))
        s2 == append(s1, pack(2, e.Subsystem))
        s3 == append(s2, pack(4, align_down_p2(e.SectionAlignment)))
        s4 == append(s3, pack(4, align_down_p2(e.FileAlignment)))
        s5 == append(s4, packr(8, align_up(e.SizeOfStackCommit, Int2Py(4096))))
    IN append(s5, packr(8, align_up(e.SizeOfHeapCommit, Int2Py(4096))))

\* min(a, b)
Min(a, b) == IF Lt(b, a) THEN b ELSE a

\* range(min(exe.OPTIONAL_HEADER.NumberOfRvaAndSizes, 16))
DirsRange(e) == 0..(Py2Int(Min(e.NumberOfRvaAndSizes, Int2Py(16))) - 1)

\* mutant: no entry is masked out
DirsMaskAll == Int2Py(2^16 - 1)

\* 0b0111111001111111
DirsMask == Int2Py(2^14 + 2^13 + 2^12 + 2^11 + 2^10 + 2^9 + 2^6 + 2^5 + 2^4 + 2^3 + 2^2 + 2 + 1)

RECURSIVE DirsLoop(_, _, _)
\* the loop over the data directories from index idx on; st.val is
\* dirs_status, st.read the indices of DATA_DIRECTORY read so far
DirsLoop(e, idx, st) ==
    IF idx \notin DirsRange(e) \/ st.exc # "" THEN st
    ELSE IF idx >= Len(e.DATA_DIRECTORY)
         THEN [exc |-> "IndexError", val |-> st.val, read |-> st.read \cup {idx}]
    ELSE DirsLoop(e, idx + 1,
             [exc |-> "",
              val |-> IF e.DATA_DIRECTORY[idx + 1].VirtualAddress # Zero
                      THEN Or(st.val, Shl(One, idx)) ELSE st.val,
              read |-> st.read \cup {idx}])

Dirs(e) == DirsLoop(e, 0, [exc |-> "", val |-> Zero, read |-> {}])

\* ------------------------------------------------------------------------
\* pehashng: one section
\* ------------------------------------------------------------------------
\* len(compress(section.get_data())): the content is kept as its identity and
\* the length bz2 gives it
LenCompressed(section) == section.raw.bz2

RECURSIVE Times(_, _)
\* a * k for a small k >= 0
Times(a, k) == IF k = 0 THEN Zero ELSE Add(a, Times(a, k - 1))

RECURSIVE FloorDiv(_, _)
\* floor(n / d) for n >= 0, d > 0, as a model integer
FloorDiv(n, d) == IF Lt(n, d) THEN 0 ELSE 1 + FloorDiv(Sub(n, d), d)

\* c * 7.0 / s: the float is kept as the exact fraction.  With s < 2^32 the
\* nearest double compares with 7 and rounds to an integer as the fraction
\* does: a fraction is a tie or 7 exactly, or at least 1/(2s) away from both.
Ratio(c, s) == [num |-> Times(c, 7), den |-> s]

\* float > 7
Above7(q) == Lt(Times(q.den, 7), q.num)

\* mutant: ties go to the even integer, as Python 3's round does
RoundHalfEven(q) ==
    LET f == FloorDiv(Add(Add(q.num, q.num), q.den), Add(q.den, q.den))
    IN IF Times(Add(q.den, q.den), f) = Add(Add(q.num, q.num), q.den) /\ f % 2 = 1
       THEN f - 1 ELSE f

\* int(round(float)), Python 2: half away from zero, floor(x + 0.5) for x >= 0
Round(q) == FloorDiv(Add(Add(q.num, q.num), q.den), Add(q.den, q.den))

\* mutant: the test of the raw size is on the content instead, which compresses
\* to something even when it is empty; the division by a raw size of 0 counts
\* as a ratio above 7
ComplexityOfContent(section) ==
    IF LenCompressed(section) # Zero
    THEN LET q == Ratio(LenCompressed(section), section.SizeOfRawData)
         IN [val |-> IF Above7(q) THEN 8 ELSE Round(q), compress |-> TRUE]
    ELSE [val |-> 0, compress |-> FALSE]

\* the complexity of a section, and whether compress() was called for it
Complexity(section) ==
    IF section.SizeOfRawData # Zero
    THEN LET q == Ratio(LenCompressed(section), section.SizeOfRawData)
         IN [val |-> IF Above7(q) THEN 8 ELSE Round(q), compress |-> TRUE]
    ELSE [val |-> 0, compress |-> FALSE]

\* the three fields packed before the complexity is computed
SectionHead(section) ==
    LET s1 == append(Return(<<>>), packr(4, align_up(section.VirtualAddress, Int2Py(512))))
        s2 == append(s1, packr(4, align_up(section.SizeOfRawData, Int2Py(256))))
    IN append(s2, pack(1, Shr(section.Characteristics, 24)))

\* the complexity c appended after the three fields s3
SectionTail(s3, c) ==
    LET s4 == append(s3, pack(1, Int2Py(c.val)))
    IN [exc |-> s4.exc, val |-> s4.val, compress |-> s3.exc = "" /\ c.compress]

\* one iteration of the loop: the fields appended, and whether compress() ran
Section(section) == SectionTail(SectionHead(section), Complexity(section))

RECURSIVE Insert(_, _)
Insert(x, l) ==
    IF Len(l) = 0 THEN <<x>>
    ELSE IF Lt(x.VirtualAddress, Head(l).VirtualAddress) THEN <<x>> \o l
    ELSE <<Head(l)>> \o Insert(x, Tail(l))

RECURSIVE SortByVA(_)
SortByVA(l) == IF Len(l) = 0 THEN <<>> ELSE Insert(Head(l), SortByVA(Tail(l)))

\* mutant: the sections are put in the order of their virtual addresses first
SectionsSorted(e) == SortByVA(e.sections)

\* for section in exe.sections
Sections(e) == e.sections

RECURSIVE Join(_)
\* "".join(data)
Join(l) == IF Len(l) = 0 THEN <<>> ELSE Head(l) \o Join(Tail(l))

\* ------------------------------------------------------------------------
\* State
\* ------------------------------------------------------------------------
VARIABLES fn, number, boundary_p2, ret,
          pc, pe_file, exe, data, dirs_status, read, sec, compressed,
          result, closed, prev

unitvars == <<fn, number, boundary_p2, ret>>
runvars == <<pc, pe_file, exe, data, dirs_status, read, sec, compressed,
             result, closed, prev>>
vars == <<unitvars, runvars>>

Running == [kind |-> "running", exc |-> "", stream |-> <<>>]
NoPrev == [change |-> "none", i |-> 0, j |-> 0, result |-> Running]

\* ------------------------------------------------------------------------
\* align_down_p2 and align_up called on their own
\* ------------------------------------------------------------------------
MaxNumber == 40
MaxBoundary == 17

Numbers == 0..MaxNumber \cup {255, 256, 257, 511, 512, 513, 4095, 4096, 4097}
Boundaries == 0..MaxBoundary \cup {256, 512, 4096}

NoImage ==
    [Characteristics |-> Zero, Subsystem |-> Zero, SectionAlignment |-> Zero,
     FileAlignment |-> Zero, SizeOfStackCommit |-> Zero, SizeOfHeapCommit |-> Zero,
     NumberOfRvaAndSizes |-> Zero, DATA_DIRECTORY |-> <<>>, sections |-> <<>>]

InitUnit ==
    /\ fn = "none"
    /\ number = Zero
    /\ boundary_p2 = Zero
    /\ ret = Return(Zero)

InitAlign ==
    /\ InitUnit
    /\ pc = "off"
    /\ pe_file = [kind |-> "PE", valid |-> TRUE, image |-> NoImage]
    /\ exe = <<>>
    /\ data = <<>>
    /\ dirs_status = Zero
    /\ read = {}
    /\ sec = 0
    /\ compressed = {}
    /\ result = Running
    /\ closed = FALSE
    /\ prev = NoPrev

CallAlignDownP2 ==
    \E n \in Numbers :
        /\ fn = "none"
        /\ fn' = "align_down_p2"
        /\ number' = Int2Py(n)
        /\ ret' = Return(align_down_p2(Int2Py(n)))
        /\ UNCHANGED <<boundary_p2, runvars>>

CallAlignUp ==
    \E n \in Numbers, b \in Boundaries :
        /\ fn = "none"
        /\ fn' = "align_up"
        /\ number' = Int2Py(n)
        /\ boundary_p2' = Int2Py(b)
        /\ ret' = align_up(Int2Py(n), Int2Py(b))
        /\ UNCHANGED runvars

NextAlign == CallAlignDownP2 \/ CallAlignUp

SpecAlign == InitAlign /\ [][NextAlign]_vars

\* ------------------------------------------------------------------------
\* pehashng(pe_file)
\* ------------------------------------------------------------------------
Raised(e) == [kind |-> "raise", exc |-> e, stream |-> <<>>]

\* isinstance(pe_file, PE), or PE(pe_file, fast_load=True)
Parse ==
    /\ pc = "start"
    /\ IF pe_file.kind = "PE" \/ pe_file.valid
       THEN /\ exe' = <<pe_file.image>>
            /\ pc' = "header"
            /\ UNCHANGED result
       ELSE \* except PEFormatError: return
            /\ result' = [kind |-> "None", exc |-> "", stream |-> <<>>]
            /\ pc' = "done"
            /\ UNCHANGED exe
    /\ UNCHANGED <<unitvars, pe_file, data, dirs_status, read, sec, compressed,
                   closed, prev>>

\* the step's outcome st: the fields so far in data, and either on to the
\* next step or out with the exception
Outcome(st, next) ==
    /\ data' = st.val
    /\ IF st.exc # "" THEN pc' = "done" /\ result' = Raised(st.exc)
       ELSE pc' = next /\ UNCHANGED result

HeaderStep ==
    /\ pc = "header"
    /\ Outcome(Header(exe[1]), "dirs")
    /\ UNCHANGED <<unitvars, pe_file, exe, dirs_status, read, sec, compressed,
                   closed, prev>>

DirsDone(d) ==
    /\ dirs_status' = d.val
    /\ read' = d.read
    /\ Outcome(append([exc |-> d.exc, val |-> data], pack(2, And(d.val, DirsMask))),
               "sections")

DirsStep ==
    /\ pc = "dirs"
    /\ DirsDone(Dirs(exe[1]))
    /\ UNCHANGED <<unitvars, pe_file, exe, sec, compressed, closed, prev>>

SectionDone(r) ==
    /\ sec' = sec + 1
    /\ compressed' = IF r.compress THEN compressed \cup {sec + 1} ELSE compressed
    /\ Outcome([exc |-> r.exc, val |-> data \o r.val], "sections")

SectionStep ==
    /\ pc = "sections"
    /\ sec < Len(Sections(exe[1]))
    /\ SectionDone(Section(Sections(exe[1])[sec + 1]))
    /\ UNCHANGED <<unitvars, pe_file, exe, dirs_status, read, closed, prev>>

\* exe.close() unless the caller owns it; return sha256("".join(data)).hexdigest()
Finish ==
    /\ pc = "sections"
    /\ sec = Len(Sections(exe[1]))
    /\ closed' = (pe_file.kind # "PE")
    /\ result' = [kind |-> "digest", exc |-> "", stream |-> Join(data)]
    /\ pc' = "done"
    /\ UNCHANGED <<unitvars, pe_file, exe, data, dirs_status, read, sec,
                   compressed, prev>>

Next == Parse \/ HeaderStep \/ DirsStep \/ SectionStep \/ Finish

\* ------------------------------------------------------------------------
\* Inputs
\* ------------------------------------------------------------------------
MaxSections == 2

P2(k) == Shl(One, k)

HeaderE2E ==
    [Characteristics |-> Int2Py(258), Subsystem |-> Int2Py(2),
     SectionAlignment |-> Int2Py(4096), FileAlignment |-> Int2Py(512),
     SizeOfStackCommit |-> Int2Py(4096), SizeOfHeapCommit |-> Int2Py(1048576)]

\* every field at an end of its declared width, none overflowing a pack
HeaderWide ==
    [Characteristics |-> Int2Py(65535), Subsystem |-> Int2Py(65535),
     SectionAlignment |-> Sub(P2(32), One), FileAlignment |-> Zero,
     SizeOfStackCommit |-> Int2Py(4097), SizeOfHeapCommit |-> Sub(P2(64), Int2Py(4096))]

Headers ==
    {HeaderE2E, HeaderWide,
     [HeaderE2E EXCEPT !.SizeOfStackCommit = Sub(P2(64), One)],
     [HeaderE2E EXCEPT !.SizeOfHeapCommit = Sub(P2(64), Int2Py(4095))]}

\* a DATA_DIRECTORY list of len entries, those with an index in S having a
\* virtual address (pefile stops appending entries where the file ends, so
\* the list can be shorter than NumberOfRvaAndSizes says)
Directory(len, S) ==
    Tuple([i \in 1..len |-> [VirtualAddress |-> IF (i - 1) \in S THEN Int2Py(4096 * i) ELSE Zero]],
          len)

Raw(id, n) == [id |-> id, bz2 |-> Int2Py(n)]

SectionView(va, size, ch, raw) ==
    [VirtualAddress |-> va, SizeOfRawData |-> size, Characteristics |-> ch, raw |-> raw]

SecText == SectionView(Int2Py(4096), Int2Py(512), Add(P2(30), Add(P2(29), Int2Py(32))), Raw("a", 37))
\* another content, the same normalized fields as SecText
SecTwin == SectionView(Int2Py(4095), Int2Py(500), Add(P2(30), Add(P2(29), Int2Py(11259375))), Raw("b", 36))
SecPacked == SectionView(Int2Py(8192), Int2Py(1024), Sub(P2(32), One), Raw("c", 1100))
SecBss == SectionView(Int2Py(12288), Zero, Add(P2(31), Add(P2(30), Int2Py(128))), Raw("", 14))
SecVaTop == SectionView(Sub(P2(32), One), Int2Py(512), P2(30), Raw("a", 37))
SecSizeTop == SectionView(Int2Py(16384), Sub(P2(32), Int2Py(255)), P2(30), Raw("d", 600))

RECURSIVE Lists(_, _)
\* the lists of at most n elements of S
Lists(S, n) ==
    IF n = 0 THEN {<<>>}
    ELSE LET L == Lists(S, n - 1) IN L \cup {Append(l, x) : l \in L, x \in S}

Image(h, n, dd, ss) ==
    [Characteristics |-> h.Characteristics, Subsystem |-> h.Subsystem,
     SectionAlignment |-> h.SectionAlignment, FileAlignment |-> h.FileAlignment,
     SizeOfStackCommit |-> h.SizeOfStackCommit, SizeOfHeapCommit |-> h.SizeOfHeapCommit,
     NumberOfRvaAndSizes |-> n, DATA_DIRECTORY |-> dd, sections |-> ss]

Images ==
    {Image(h, n, dd, ss) :
        h \in Headers,
        n \in {Zero, Int2Py(16), Sub(P2(32), One)},
        dd \in {Directory(16, {0, 7, 8, 15}), Directory(8, 0..7)},
        ss \in Lists({SecText, SecBss, SecVaTop, SecSizeTop}, MaxSections)}

\* a PE instance, a path pefile parses, a path it refuses
Files(images) ==
    {[kind |-> k, valid |-> TRUE, image |-> im] : k \in {"PE", "path"}, im \in images}
    \cup {[kind |-> "path", valid |-> FALSE, image |-> NoImage]}

InitRun(files) ==
    /\ InitUnit
    /\ pc = "start"
    /\ pe_file \in files
    /\ exe = <<>>
    /\ data = <<>>
    /\ dirs_status = Zero
    /\ read = {}
    /\ sec = 0
    /\ compressed = {}
    /\ result = Running
    /\ closed = FALSE
    /\ prev = NoPrev

Init == InitRun(Files(Images))

Spec == Init /\ [][Next]_vars

\* ------------------------------------------------------------------------
\* The data directories on their own: every count, every mix of flags
\* ------------------------------------------------------------------------
Counts ==
    {Int2Py(n) : n \in {0, 1, 7, 8, 9, 15, 16, 17}} \cup {Sub(P2(32), One)}

ImagesDirs ==
    {Image(HeaderE2E, n, dd, <<SecText>>) :
        n \in Counts,
        dd \in {Directory(16, S) : S \in SUBSET {0, 6, 7, 8, 9, 15}}
               \cup {Directory(8, 0..7)}}

Instances(images) == {[kind |-> "PE", valid |-> TRUE, image |-> im] : im \in images}

InitDirs == InitRun(Instances(ImagesDirs))

SpecDirs == InitDirs /\ [][Next]_vars

\* ------------------------------------------------------------------------
\* The complexity on its own: one section, every raw size and every
\* compressed length up to a bound, and some larger ones
\* ------------------------------------------------------------------------
MaxRawSize == 16
MaxCompLen == 20

RawSizes == 0..MaxRawSize \cup {512, 65535, 65536, 2^26}
CompLens == 0..MaxCompLen \cup {37, 512, 513, 65536, 2^26, 2^26 + 1}

ImagesComplexity ==
    {Image(HeaderE2E, Zero, Directory(16, {}),
           <<SectionView(Int2Py(4096), Int2Py(size), P2(30), Raw("a", c))>>) :
        size \in RawSizes, c \in CompLens}

InitComplexity == InitRun(Instances(ImagesComplexity))

SpecComplexity == InitComplexity /\ [][Next]_vars

\* ------------------------------------------------------------------------
\* Two calls on inputs that differ in one place: the second call is made on
\* the first call's input with one field changed, and prev keeps what was
\* changed and what the first call returned
\* ------------------------------------------------------------------------
Subsystems == {Int2Py(2), Int2Py(3), Int2Py(65535)}

Again(image, change, i, j) ==
    /\ pe_file' = [pe_file EXCEPT !.image = image]
    /\ prev' = [change |-> change, i |-> i, j |-> j, result |-> result]
    /\ pc' = "start"
    /\ exe' = <<>>
    /\ data' = <<>>
    /\ dirs_status' = Zero
    /\ read' = {}
    /\ sec' = 0
    /\ compressed' = {}
    /\ result' = Running
    /\ closed' = FALSE
    /\ UNCHANGED unitvars

ChangeSubsystem ==
    /\ pc = "done"
    /\ result.kind = "digest"
    /\ \E v \in Subsystems \ {pe_file.image.Subsystem} :
          Again([pe_file.image EXCEPT !.Subsystem = v], "subsystem", 0, 0)

\* the indices of a DATA_DIRECTORY list whose entry has a virtual address
Flagged(dd) == {i \in 0..(Len(dd) - 1) : dd[i + 1].VirtualAddress # Zero}

ChangeDirFlags ==
    /\ pc = "done"
    /\ result.kind = "digest"
    /\ \E T \in SUBSET {7, 8, 15} \ {{}} :
          LET dd == pe_file.image.DATA_DIRECTORY
              S == (Flagged(dd) \ T) \cup (T \ Flagged(dd))
          IN Again([pe_file.image EXCEPT !.DATA_DIRECTORY = Directory(Len(dd), S)],
                   "dirflag", 0, 0)

SwapSections ==
    /\ pc = "done"
    /\ result.kind = "digest"
    /\ LET ss == pe_file.image.sections
       IN \E i, j \in 1..Len(ss) :
             /\ i < j
             /\ ss[i].raw.id # ss[j].raw.id
             /\ Again([pe_file.image EXCEPT
                          !.sections = [ss EXCEPT ![i] = ss[j], ![j] = ss[i]]],
                      "swap", i, j)

NextPair == Next \/ ChangeSubsystem \/ ChangeDirFlags \/ SwapSections

ImagesPair ==
    {Image(HeaderE2E, Int2Py(16), Directory(16, {0, 7}), ss) :
        ss \in Lists({SecText, SecTwin, SecPacked}, MaxSections)}

InitPair == InitRun(Instances(ImagesPair))

SpecPair == InitPair /\ [][NextPair]_vars

\* ------------------------------------------------------------------------
\* Properties
\* ------------------------------------------------------------------------
IsPowerOfTwo(r) == \E k \in 0..30 : r = 2^k

Bit(v, i) == (v \div 2^i) % 2

\* C1: align_down_p2(0) is 0, and for n > 0 align_down_p2(n) is the power of
\* two r with r <= n < 2r.
C1_AlignDown ==
    fn = "align_down_p2" =>
        LET n == Py2Int(number)
            r == Py2Int(ret.val)
        IN IF n = 0 THEN r = 0 ELSE IsPowerOfTwo(r) /\ r <= n /\ n < 2 * r

C1_Witness ==
    fn = "align_down_p2" /\ Py2Int(number) = 4097 /\ Py2Int(ret.val) = 4096

\* C2: with a boundary b that is a power of two, align_up(n, b) returns a
\* multiple r of b with r - b < n <= r.
C2_AlignUp ==
    (fn = "align_up" /\ IsPowerOfTwo(Py2Int(boundary_p2))) =>
        LET n == Py2Int(number)
            b == Py2Int(boundary_p2)
            r == Py2Int(ret.val)
        IN ret.exc = "" /\ r % b = 0 /\ r - b < n /\ n <= r

C2_Witness ==
    /\ fn = "align_up" /\ Py2Int(number) = 513 /\ Py2Int(boundary_p2) = 512
    /\ ret = Return(Int2Py(1024))

\* C9 as stated: align_up fails its assertion exactly when the boundary is
\* not a power of two, 0 included.
C9_AssertsPowerOfTwo ==
    fn = "align_up" =>
        (ret.exc = "AssertionError" <=> ~IsPowerOfTwo(Py2Int(boundary_p2)))

\* the bitmap field of the stream, and the fields of the k-th section
Bitmap == data[7][1] * 256 + data[7][2]
SectionFields(k) == SubSeq(data, 4 + 4 * k, 7 + 4 * k)

\* C3: only directory entries below min(NumberOfRvaAndSizes, 16) are read,
\* and bit i of the packed bitmap is 1 exactly when i is below that minimum,
\* i is not 7, 8 or 15, and entry i has a virtual address.
C3_DirectoryBitmap ==
    LET n == pe_file.image.NumberOfRvaAndSizes
        dd == pe_file.image.DATA_DIRECTORY
    IN /\ read \subseteq {i \in 0..15 : Lt(Int2Py(i), n)}
       /\ Len(data) >= 7 =>
             \A i \in 0..15 :
                 Bit(Bitmap, i) = 1 <=>
                     /\ Lt(Int2Py(i), n)
                     /\ i \notin {7, 8, 15}
                     /\ dd[i + 1].VirtualAddress # Zero

C3_Witness ==
    /\ result.kind = "digest"
    /\ pe_file.image.NumberOfRvaAndSizes = Sub(P2(32), One)
    /\ Flagged(pe_file.image.DATA_DIRECTORY) = {0, 6, 7, 8, 9, 15}
    /\ data[7] = <<2, 65>>

\* C4: the complexity packed for a section is in 0..8, and for a section
\* whose SizeOfRawData is 0 it is 0 and compress() was not called.
C4_ComplexityRange ==
    \A k \in 1..sec :
        Len(data) >= 7 + 4 * k =>
            LET v == data[7 + 4 * k]
                section == pe_file.image.sections[k]
            IN /\ Len(v) = 1
               /\ v[1] \in 0..8
               /\ section.SizeOfRawData = Zero => (v[1] = 0 /\ k \notin compressed)

C4_Witness ==
    /\ result.kind = "digest"
    /\ pe_file.image.sections[1].SizeOfRawData = Zero
    /\ pe_file.image.sections[1].raw.bz2 = Int2Py(20)
    /\ data[11] = <<0>>
    /\ compressed = {}

\* C8: for a section of raw size s > 0 whose content compresses to c bytes
\* the complexity is 8 when c > s and floor((14c + s) / 2s) otherwise.
C8_ComplexityValue ==
    \A k \in 1..sec :
        (Len(data) >= 7 + 4 * k /\ pe_file.image.sections[k].SizeOfRawData # Zero) =>
            LET s == Py2Int(pe_file.image.sections[k].SizeOfRawData)
                c == Py2Int(pe_file.image.sections[k].raw.bz2)
            IN /\ k \in compressed
               /\ data[7 + 4 * k][1] = IF c > s THEN 8 ELSE (14 * c + s) \div (2 * s)

\* a tie: 7 * 5 / 14 = 2.5 gives 3
C8_Witness ==
    /\ result.kind = "digest"
    /\ pe_file.image.sections[1].SizeOfRawData = Int2Py(14)
    /\ pe_file.image.sections[1].raw.bz2 = Int2Py(5)
    /\ data[11] = <<3>>

\* C5 as stated: after two sections of different content are exchanged the
\* hashed stream differs from the stream of the first call.
C5_SwapAlwaysChanges ==
    (pc = "done" /\ prev.change = "swap") =>
        (result.kind = "digest" /\ result.stream # prev.result.stream)

\* C5 amended: after two sections of different content are exchanged the
\* hashed stream differs from the first call's exactly when the four packed
\* fields of the two sections are not the same.
C5_SwapChangesFields ==
    (pc = "done" /\ prev.change = "swap") =>
        /\ result.kind = "digest"
        /\ result.stream # prev.result.stream
              <=> SectionFields(prev.i) # SectionFields(prev.j)

C5_Witness ==
    /\ pc = "done" /\ prev.change = "swap"
    /\ SectionFields(prev.i) # SectionFields(prev.j)
    /\ result.stream # prev.result.stream
    /\ Len(pe_file.image.sections) = 2

\* C6: a call on the same input with another subsystem hashes another
\* stream; a call on the same input with the flags of directory entries 7, 8
\* and 15 changed hashes the same stream.
C6_FieldSensitivity ==
    /\ (pc = "done" /\ prev.change = "subsystem") =>
          (result.kind = "digest" /\ result.stream # prev.result.stream)
    /\ (pc = "done" /\ prev.change = "dirflag") =>
          (result.kind = "digest" /\ result.stream = prev.result.stream)

C6_Witness ==
    /\ pc = "done" /\ prev.change = "subsystem"
    /\ pe_file.image.Subsystem = Int2Py(65535)
    /\ SubSeq(result.stream, 1, 4) = <<1, 2, 255, 255>>
    /\ SubSeq(prev.result.stream, 1, 4) # <<1, 2, 255, 255>>

\* C7 as stated: a call ends with the digest of the complete stream or with
\* None, with None and an empty stream when pefile refuses the file, and
\* never with an exception.
C7_DigestOrNone ==
    pc = "done" =>
        \/ /\ result.kind = "digest"
           /\ Len(data) = 7 + 4 * Len(pe_file.image.sections)
           /\ result.stream = Join(data)
        \/ /\ result.kind = "None"
           /\ pe_file.kind = "path" /\ ~pe_file.valid
           /\ data = <<>>

\* the header fields are 2 + 2 + 4 + 4 + 8 + 8 + 2 bytes, a section's 4 + 4 + 1 + 1
StreamLength ==
    result.kind = "digest" =>
        Len(result.stream) = 30 + 10 * Len(pe_file.image.sections)

\* C10 as stated: with every field within its declared width no pack fails
\* and the hashed stream is 22 + 10 * (number of sections) bytes long.
C10_FieldsFit ==
    pc = "done" =>
        /\ result.exc # "struct.error"
        /\ result.kind = "digest" =>
              Len(result.stream) = 22 + 10 * Len(pe_file.image.sections)

====
